---- MODULE Spec2Model ----
(***************************************************************************)
(* Model of the CSS selector builder of 08-objects-tasks.js: the           *)
(* CssSelector accumulator, the CssSelectorCombinator and the              *)
(* cssSelectorBuilder facade.  The heap holds the objects the facade has   *)
(* returned; a reference is an index into the heap.                        *)
(***************************************************************************)
EXTENDS Integers, Sequences, FiniteSets, TLC

VARIABLES heap, log, last

vars == <<heap, log, last>>

(* ---------------------------- bounds ----------------------------------- *)

\* Spec: objects (selectors and combinators) on the heap
MaxObjects == 3
\* Spec: part calls that returned normally, over all selectors of the heap
MaxParts == 2
\* SelectorSpec, FacadeSpec: part calls that returned normally
MaxChain == 4
\* FacadeSpec: selectors on the heap
MaxSelectors == 2

\* RectangleSpec: width and height range over -MaxSide..MaxSide
MaxSide == 20

\* string arguments of the part calls in SelectorSpec; '' is the falsy string
Values == {"", "a", "b"}
\* string arguments of the part calls in Spec and FacadeSpec
OperandValues == {"a"}
\* combinator strings handed to combine in Spec
Combinators == {" "}

(* ---------------------------- JS values -------------------------------- *)

JsNull == [type |-> "null"]
JsString(s) == [type |-> "string", val |-> s]
JsArray(a) == [type |-> "array", val |-> a]

\* ToBoolean of a value: null and '' are falsy, an array (also []) is truthy
Falsy(x) == x.type = "null" \/ (x.type = "string" /\ x.val = "")

\* Array.prototype.indexOf
indexOf(arr, x) ==
    IF \E k \in 1..Len(arr) : arr[k] = x
    THEN (CHOOSE k \in 1..Len(arr) : arr[k] = x /\ \A j \in 1..(k - 1) : arr[j] # x) - 1
    ELSE -1

(* ---------------------------- errors ----------------------------------- *)

NoError == ""
DuplicateMsg == "Element, id and pseudo-element should not occur more then one time inside the selector"
OrderMsg == "Selector parts should be arranged in the following order: element, id, class, attribute, pseudo-class, pseudo-element"
TypeErrorMsg == "TypeError"

(* ---------------------------- CssSelector ------------------------------ *)

\* a selector whose repeatable categories are counted from zero
CssSelector_zeroBased ==
    [type |-> "CssSelector",
     elementItem |-> JsNull,
     idItem |-> JsNull,
     classItems |-> <<>>,
     attrItems |-> <<>>,
     pseudoClassItems |-> <<>>,
     pseudoElementItem |-> JsNull,
     multipleDataItem |-> <<2, 3, 4>>,
     rank |-> 0]

CssSelector ==
    [type |-> "CssSelector",
     elementItem |-> JsNull,
     idItem |-> JsNull,
     classItems |-> <<>>,
     attrItems |-> <<>>,
     pseudoClassItems |-> <<>>,
     pseudoElementItem |-> JsNull,
     multipleDataItem |-> <<3, 4, 5>>,
     rank |-> 0]

\* checkRules without the check for a repeated singleton
checkRules_noDuplicateCheck(this, stageIndex) ==
    IF stageIndex < this.rank THEN OrderMsg ELSE NoError

\* checkRules without the check of the order
checkRules_noOrderCheck(this, stageIndex) ==
    IF this.rank = stageIndex /\ indexOf(this.multipleDataItem, stageIndex) = -1
    THEN DuplicateMsg
    ELSE NoError

\* checkRules that lets a call step back by one category
checkRules_orderByOne(this, stageIndex) ==
    IF this.rank = stageIndex /\ indexOf(this.multipleDataItem, stageIndex) = -1
    THEN DuplicateMsg
    ELSE IF stageIndex < this.rank - 1
         THEN OrderMsg
         ELSE NoError

\* checkRules that finds a repeated singleton by its field being set
checkRules_duplicateByField(this, stageIndex) ==
    IF \/ stageIndex = 1 /\ this.elementItem # JsNull
       \/ stageIndex = 2 /\ this.idItem # JsNull
       \/ stageIndex = 6 /\ this.pseudoElementItem # JsNull
    THEN DuplicateMsg
    ELSE IF stageIndex < this.rank
         THEN OrderMsg
         ELSE NoError

\* the message checkRules throws, NoError when it returns normally
checkRules(this, stageIndex) ==
    IF this.rank = stageIndex /\ indexOf(this.multipleDataItem, stageIndex) = -1
    THEN DuplicateMsg
    ELSE IF stageIndex < this.rank
         THEN OrderMsg
         ELSE NoError

\* outcome of a method: the exception (if any) and the receiver afterwards
Thrown(msg, this) == [raised |-> TRUE, msg |-> msg, this |-> this]
Returned(this) == [raised |-> FALSE, msg |-> NoError, this |-> this]

\* element that stores the value before checking the rules
element_assignFirst(this, value) ==
    LET e == checkRules(this, 1)
    IN IF e # NoError THEN Thrown(e, [this EXCEPT !.elementItem = JsString(value)])
       ELSE Returned([this EXCEPT !.rank = 1, !.elementItem = JsString(value)])

element(this, value) ==
    LET e == checkRules(this, 1)
    IN IF e # NoError THEN Thrown(e, this)
       ELSE Returned([this EXCEPT !.rank = 1, !.elementItem = JsString(value)])

\* id that leaves the rank as it was
id_noRank(this, value) ==
    LET e == checkRules(this, 2)
    IN IF e # NoError THEN Thrown(e, this)
       ELSE Returned([this EXCEPT !.idItem = JsString(value)])

id(this, value) ==
    LET e == checkRules(this, 2)
    IN IF e # NoError THEN Thrown(e, this)
       ELSE Returned([this EXCEPT !.rank = 2, !.idItem = JsString(value)])

\* class that starts a new list with the value
class_assign(this, value) ==
    LET e == checkRules(this, 3)
    IN IF e # NoError THEN Thrown(e, this)
       ELSE Returned([this EXCEPT !.rank = 3, !.classItems = <<value>>])

\* class with unshift in place of push
class_unshift(this, value) ==
    LET e == checkRules(this, 3)
    IN IF e # NoError THEN Thrown(e, this)
       ELSE Returned([this EXCEPT !.rank = 3, !.classItems = <<value>> \o @])

class(this, value) ==
    LET e == checkRules(this, 3)
    IN IF e # NoError THEN Thrown(e, this)
       ELSE Returned([this EXCEPT !.rank = 3, !.classItems = Append(@, value)])

\* attr that records the rank of class
attr_copiedRank(this, value) ==
    LET e == checkRules(this, 4)
    IN IF e # NoError THEN Thrown(e, this)
       ELSE Returned([this EXCEPT !.rank = 3, !.attrItems = Append(@, value)])

attr(this, value) ==
    LET e == checkRules(this, 4)
    IN IF e # NoError THEN Thrown(e, this)
       ELSE Returned([this EXCEPT !.rank = 4, !.attrItems = Append(@, value)])

pseudoClass(this, value) ==
    LET e == checkRules(this, 5)
    IN IF e # NoError THEN Thrown(e, this)
       ELSE Returned([this EXCEPT !.rank = 5, !.pseudoClassItems = Append(@, value)])

pseudoElement(this, value) ==
    LET e == checkRules(this, 6)
    IN IF e # NoError THEN Thrown(e, this)
       ELSE Returned([this EXCEPT !.rank = 6, !.pseudoElementItem = JsString(value)])

\* items.reduce((prev, curr) => prev + before + curr + after, "")
RECURSIVE reduce(_, _, _)
reduce(items, before, after) ==
    IF items = <<>> THEN ""
    ELSE reduce(SubSeq(items, 1, Len(items) - 1), before, after)
         \o before \o items[Len(items)] \o after

\* toString without the default of an empty array
toString_noDefault(items, before, after) ==
    LET items2 == IF items.type # "array" /\ items # JsNull
                  THEN JsArray(<<items.val>>)
                  ELSE items
    IN IF items2.type = "array"
       THEN [raised |-> FALSE, val |-> reduce(items2.val, before, after)]
       ELSE [raised |-> TRUE, val |-> TypeErrorMsg]

\* the value toString returns, or the TypeError of calling reduce on a non-array
toString(items, before, after) ==
    LET items1 == IF Falsy(items) THEN JsArray(<<>>) ELSE items
        items2 == IF items1.type # "array" /\ items1 # JsNull
                  THEN JsArray(<<items1.val>>)
                  ELSE items1
    IN IF items2.type = "array"
       THEN [raised |-> FALSE, val |-> reduce(items2.val, before, after)]
       ELSE [raised |-> TRUE, val |-> TypeErrorMsg]

\* e1 + e2 + ... evaluated left to right: the first exception propagates,
\* otherwise the strings are concatenated
RECURSIVE Join(_)
Join(rs) == IF rs = <<>> THEN "" ELSE Head(rs).val \o Join(Tail(rs))

Plus(rs) ==
    IF \E k \in 1..Len(rs) : rs[k].raised
    THEN rs[CHOOSE k \in 1..Len(rs) : rs[k].raised /\ \A j \in 1..(k - 1) : ~rs[j].raised]
    ELSE [raised |-> FALSE, val |-> Join(rs)]

\* stringify with the attributes ahead of the classes
stringify_attrFirst(this) ==
    Plus(<<toString(this.elementItem, "", ""),
           toString(this.idItem, "#", ""),
           toString(JsArray(this.attrItems), "[", "]"),
           toString(JsArray(this.classItems), ".", ""),
           toString(JsArray(this.pseudoClassItems), ":", ""),
           toString(this.pseudoElementItem, "::", "")>>)

stringify(this) ==
    Plus(<<toString(this.elementItem, "", ""),
           toString(this.idItem, "#", ""),
           toString(JsArray(this.classItems), ".", ""),
           toString(JsArray(this.attrItems), "[", "]"),
           toString(JsArray(this.pseudoClassItems), ":", ""),
           toString(this.pseudoElementItem, "::", "")>>)

(* ---------------------------- CssSelectorCombinator -------------------- *)

CssSelectorCombinator(selector1, combinator, selector2) ==
    [type |-> "CssSelectorCombinator",
     selector1 |-> selector1,
     selector2 |-> selector2,
     combinator |-> combinator]

Str(s) == [raised |-> FALSE, val |-> s]

\* ref.stringify() with the object's own method, operands read from heap h
RECURSIVE Invoke_stringify(_, _)
\* the combinator's stringify without the spaces around the symbol
CssSelectorCombinator_stringify_noSpaces(h, this) ==
    Plus(<<Invoke_stringify(h, this.selector1),
           Str(this.combinator),
           Invoke_stringify(h, this.selector2)>>)

CssSelectorCombinator_stringify(h, this) ==
    Plus(<<Invoke_stringify(h, this.selector1),
           Str(" "), Str(this.combinator), Str(" "),
           Invoke_stringify(h, this.selector2)>>)

Invoke_stringify(h, ref) ==
    IF h[ref].type = "CssSelector"
    THEN stringify(h[ref])
    ELSE CssSelectorCombinator_stringify(h, h[ref])

(* ---------------------------- cssSelectorBuilder ----------------------- *)

builder_element(value) == element(CssSelector, value)
builder_id(value) == id(CssSelector, value)
builder_class(value) == class(CssSelector, value)
builder_attr(value) == attr(CssSelector, value)
builder_pseudoClass(value) == pseudoClass(CssSelector, value)
\* a facade that keeps one selector and hands it out again
builder_pseudoElement_shared(value) ==
    pseudoElement(IF heap # <<>> /\ heap[1].type = "CssSelector" THEN heap[1] ELSE CssSelector,
                  value)

builder_pseudoElement(value) == pseudoElement(CssSelector, value)
builder_combine(selector1, combinator, selector2) ==
    CssSelectorCombinator(selector1, combinator, selector2)

(* ---------------------------- Rectangle -------------------------------- *)

Rectangle(width, height) ==
    [type |-> "Rectangle", width |-> width, height |-> height]

\* getArea that adds the sides
getArea_sum(this) == this.width + this.height

getArea(this) == this.width * this.height

(* ---------------------------- state ------------------------------------ *)

\* heap: the objects returned by the facade, a reference is an index
\* log:  per object, the part calls that returned normally on it, in call order
\* last: the most recent call and how it ended
Refs == 1..Len(heap)
SelectorRefs == {r \in Refs : heap[r].type = "CssSelector"}
CombinatorRefs == {r \in Refs : heap[r].type = "CssSelectorCombinator"}

RECURSIVE SumLen(_)
SumLen(s) == IF s = <<>> THEN 0 ELSE Len(Head(s)) + SumLen(Tail(s))
TotalParts == SumLen(log)

NoCall == [op |-> "none", target |-> 0, raised |-> FALSE, msg |-> NoError, out |-> ""]

Init ==
    /\ heap = <<>>
    /\ log = <<>>
    /\ last = NoCall

\* a part method that works on a copy and leaves the receiver as it was
CallOnSelector_onCopy(ref, op, cat, value, r) ==
    /\ heap' = heap
    /\ log' = IF r.raised THEN log
              ELSE [log EXCEPT ![ref] = Append(@, [cat |-> cat, val |-> value])]
    /\ last' = [op |-> op, target |-> ref, raised |-> r.raised, msg |-> r.msg, out |-> ""]

\* a part method called on the selector at ref, with outcome r
CallOnSelector(ref, op, cat, value, r) ==
    /\ heap' = [heap EXCEPT ![ref] = r.this]
    /\ log' = IF r.raised THEN log
              ELSE [log EXCEPT ![ref] = Append(@, [cat |-> cat, val |-> value])]
    /\ last' = [op |-> op, target |-> ref, raised |-> r.raised, msg |-> r.msg, out |-> ""]

\* a facade entry point: the new selector is returned only if the call returns
CallOnBuilder(op, cat, value, r) ==
    /\ heap' = IF r.raised THEN heap ELSE Append(heap, r.this)
    /\ log' = IF r.raised THEN log ELSE Append(log, <<[cat |-> cat, val |-> value]>>)
    /\ last' = [op |-> op, target |-> IF r.raised THEN 0 ELSE Len(heap) + 1,
                raised |-> r.raised, msg |-> r.msg, out |-> ""]

Element(ref, value) == CallOnSelector(ref, "element", 1, value, element(heap[ref], value))
Id(ref, value) == CallOnSelector(ref, "id", 2, value, id(heap[ref], value))
Class(ref, value) == CallOnSelector(ref, "class", 3, value, class(heap[ref], value))
Attr(ref, value) == CallOnSelector(ref, "attr", 4, value, attr(heap[ref], value))
PseudoClass(ref, value) == CallOnSelector(ref, "pseudoClass", 5, value, pseudoClass(heap[ref], value))
PseudoElement(ref, value) == CallOnSelector(ref, "pseudoElement", 6, value, pseudoElement(heap[ref], value))

BuilderElement(value) == CallOnBuilder("element", 1, value, builder_element(value))
BuilderId(value) == CallOnBuilder("id", 2, value, builder_id(value))
BuilderClass(value) == CallOnBuilder("class", 3, value, builder_class(value))
BuilderAttr(value) == CallOnBuilder("attr", 4, value, builder_attr(value))
BuilderPseudoClass(value) == CallOnBuilder("pseudoClass", 5, value, builder_pseudoClass(value))
BuilderPseudoElement(value) == CallOnBuilder("pseudoElement", 6, value, builder_pseudoElement(value))

BuilderCombine(selector1, combinator, selector2) ==
    /\ heap' = Append(heap, builder_combine(selector1, combinator, selector2))
    /\ log' = Append(log, <<>>)
    /\ last' = [op |-> "combine", target |-> Len(heap) + 1, raised |-> FALSE,
                msg |-> NoError, out |-> ""]

\* a stringify that resets the selector it has serialised
Stringify_resetting(ref) ==
    LET r == Invoke_stringify(heap, ref)
    IN /\ last' = [op |-> "stringify", target |-> ref, raised |-> r.raised,
                   msg |-> IF r.raised THEN r.val ELSE NoError,
                   out |-> IF r.raised THEN "" ELSE r.val]
       /\ heap' = IF heap[ref].type = "CssSelector"
                  THEN [heap EXCEPT ![ref] = CssSelector]
                  ELSE heap
       /\ UNCHANGED log

Stringify(ref) ==
    LET r == Invoke_stringify(heap, ref)
    IN /\ last' = [op |-> "stringify", target |-> ref, raised |-> r.raised,
                   msg |-> IF r.raised THEN r.val ELSE NoError,
                   out |-> IF r.raised THEN "" ELSE r.val]
       /\ UNCHANGED <<heap, log>>

\* new Rectangle(width, height); the log keeps the arguments of the call
NewRectangle(width, height) ==
    /\ heap' = Append(heap, Rectangle(width, height))
    /\ log' = Append(log, <<[width |-> width, height |-> height]>>)
    /\ last' = [op |-> "Rectangle", target |-> Len(heap) + 1, raised |-> FALSE,
                msg |-> NoError, out |-> ""]

GetArea(ref) ==
    /\ last' = [op |-> "getArea", target |-> ref, raised |-> FALSE,
                msg |-> NoError, out |-> getArea(heap[ref])]
    /\ UNCHANGED <<heap, log>>

(* ---------------------------- specifications --------------------------- *)

\* the whole program: selectors, combinators and the facade
InBounds == Len(heap) <= MaxObjects /\ TotalParts <= MaxParts

Next ==
    \/ \E ref \in SelectorRefs, value \in OperandValues : Element(ref, value) /\ InBounds'
    \/ \E ref \in SelectorRefs, value \in OperandValues : Id(ref, value) /\ InBounds'
    \/ \E ref \in SelectorRefs, value \in OperandValues : Class(ref, value) /\ InBounds'
    \/ \E ref \in SelectorRefs, value \in OperandValues : Attr(ref, value) /\ InBounds'
    \/ \E ref \in SelectorRefs, value \in OperandValues : PseudoClass(ref, value) /\ InBounds'
    \/ \E ref \in SelectorRefs, value \in OperandValues : PseudoElement(ref, value) /\ InBounds'
    \/ \E value \in OperandValues : BuilderElement(value) /\ InBounds'
    \/ \E value \in OperandValues : BuilderId(value) /\ InBounds'
    \/ \E value \in OperandValues : BuilderClass(value) /\ InBounds'
    \/ \E value \in OperandValues : BuilderAttr(value) /\ InBounds'
    \/ \E value \in OperandValues : BuilderPseudoClass(value) /\ InBounds'
    \/ \E value \in OperandValues : BuilderPseudoElement(value) /\ InBounds'
    \/ \E s1 \in Refs, s2 \in Refs, c \in Combinators : BuilderCombine(s1, c, s2) /\ InBounds'
    \/ \E ref \in Refs : Stringify(ref)

Spec == Init /\ [][Next]_vars

\* the life of one selector: created through any facade entry point, then
\* chained part calls and reads, with longer chains and '' among the values
InChainBounds == TotalParts <= MaxChain

SelectorNext ==
    \/ \E ref \in SelectorRefs, value \in Values : Element(ref, value) /\ InChainBounds'
    \/ \E ref \in SelectorRefs, value \in Values : Id(ref, value) /\ InChainBounds'
    \/ \E ref \in SelectorRefs, value \in Values : Class(ref, value) /\ InChainBounds'
    \/ \E ref \in SelectorRefs, value \in Values : Attr(ref, value) /\ InChainBounds'
    \/ \E ref \in SelectorRefs, value \in Values : PseudoClass(ref, value) /\ InChainBounds'
    \/ \E ref \in SelectorRefs, value \in Values : PseudoElement(ref, value) /\ InChainBounds'
    \/ \E value \in Values : heap = <<>> /\ BuilderElement(value)
    \/ \E value \in Values : heap = <<>> /\ BuilderId(value)
    \/ \E value \in Values : heap = <<>> /\ BuilderClass(value)
    \/ \E value \in Values : heap = <<>> /\ BuilderAttr(value)
    \/ \E value \in Values : heap = <<>> /\ BuilderPseudoClass(value)
    \/ \E value \in Values : heap = <<>> /\ BuilderPseudoElement(value)
    \/ \E ref \in Refs : Stringify(ref)

SelectorSpec == Init /\ [][SelectorNext]_vars

\* several selectors side by side, each created through the facade
InFacadeBounds == Len(heap) <= MaxSelectors /\ TotalParts <= MaxChain

FacadeNext ==
    \/ \E ref \in SelectorRefs, value \in OperandValues : Element(ref, value) /\ InFacadeBounds'
    \/ \E ref \in SelectorRefs, value \in OperandValues : Id(ref, value) /\ InFacadeBounds'
    \/ \E ref \in SelectorRefs, value \in OperandValues : Class(ref, value) /\ InFacadeBounds'
    \/ \E ref \in SelectorRefs, value \in OperandValues : Attr(ref, value) /\ InFacadeBounds'
    \/ \E ref \in SelectorRefs, value \in OperandValues : PseudoClass(ref, value) /\ InFacadeBounds'
    \/ \E ref \in SelectorRefs, value \in OperandValues : PseudoElement(ref, value) /\ InFacadeBounds'
    \/ \E value \in OperandValues : BuilderElement(value) /\ InFacadeBounds'
    \/ \E value \in OperandValues : BuilderId(value) /\ InFacadeBounds'
    \/ \E value \in OperandValues : BuilderClass(value) /\ InFacadeBounds'
    \/ \E value \in OperandValues : BuilderAttr(value) /\ InFacadeBounds'
    \/ \E value \in OperandValues : BuilderPseudoClass(value) /\ InFacadeBounds'
    \/ \E value \in OperandValues : BuilderPseudoElement(value) /\ InFacadeBounds'
    \/ \E ref \in Refs : Stringify(ref)

FacadeSpec == Init /\ [][FacadeNext]_vars

\* one rectangle: constructed, then read
Sides == (0 - MaxSide)..MaxSide
RectangleRefs == {r \in Refs : heap[r].type = "Rectangle"}

RectangleNext ==
    \/ \E width \in Sides, height \in Sides : heap = <<>> /\ NewRectangle(width, height)
    \/ \E ref \in RectangleRefs : GetArea(ref)

RectangleSpec == Init /\ [][RectangleNext]_vars

(* ---------------------------- notions of the claims -------------------- *)

PartOps == {"element", "id", "class", "attr", "pseudoClass", "pseudoElement"}
Singletons == {1, 2, 6}
Repeatable == {3, 4, 5}

CategoryOf(op) ==
    CASE op = "element" -> 1
      [] op = "id" -> 2
      [] op = "class" -> 3
      [] op = "attr" -> 4
      [] op = "pseudoClass" -> 5
      [] op = "pseudoElement" -> 6

\* the most recent call was a part call (chained or through the facade)
IsPartCall == last.op \in PartOps /\ last.target \in Refs
LastCategory == CategoryOf(last.op)

Front(l) == SubSeq(l, 1, Len(l) - 1)

\* the part calls that had returned normally on the target before the last call
Prior == IF last.raised THEN log[last.target] ELSE Front(log[last.target])
CategoriesIn(l) == {l[k].cat : k \in 1..Len(l)}
CategorySeq(l) == [k \in 1..Len(l) |-> l[k].cat]

\* element? id? class* attr* pseudoClass* pseudoElement?
Canonical(cs) ==
    \A i \in 1..Len(cs) : \A j \in (i + 1)..Len(cs) :
        /\ cs[i] <= cs[j]
        /\ cs[i] = cs[j] => cs[i] \in Repeatable

\* before + value + after of the calls of category c, in call order
RECURSIVE Pieces(_, _, _, _)
Pieces(l, c, before, after) ==
    IF l = <<>> THEN ""
    ELSE (IF Head(l).cat = c THEN before \o Head(l).val \o after ELSE "")
         \o Pieces(Tail(l), c, before, after)

\* the selector text of a list of part calls, category by category
Rendered(l) ==
    Pieces(l, 1, "", "") \o Pieces(l, 2, "#", "") \o Pieces(l, 3, ".", "")
    \o Pieces(l, 4, "[", "]") \o Pieces(l, 5, ":", "") \o Pieces(l, 6, "::", "")

StringifiedSelector ==
    /\ last.op = "stringify"
    /\ last.target \in SelectorRefs

(* ---------------------------- claims ----------------------------------- *)

\* C1: element, id or pseudoElement called on a selector on which that same
\* operation has already returned normally always raises, whatever calls
\* happened in between.
C1_SingletonRepeatRaises ==
    (IsPartCall /\ LastCategory \in Singletons /\ LastCategory \in CategoriesIn(Prior))
        => last.raised

\* element raised on a selector holding element, id and class already
C1_Witness ==
    /\ IsPartCall /\ last.op = "element" /\ last.raised
    /\ CategorySeq(Prior) = <<1, 2, 3>>

\* C2: a part call whose category is strictly earlier than the category of a
\* part already added to the selector always raises.
C2_EarlierCategoryRaises ==
    (IsPartCall /\ \E c \in CategoriesIn(Prior) : LastCategory < c)
        => last.raised

\* id raised after class
C2_Witness ==
    /\ IsPartCall /\ last.op = "id" /\ last.raised
    /\ 3 \in CategoriesIn(Prior) /\ 2 \notin CategoriesIn(Prior)

\* C3: a call that keeps the chain in canonical order does not raise, and
\* stringify() of a chain of non-empty values is element, '#'+id, '.'+class...,
\* '['+attr+']'..., ':'+pseudoClass..., '::'+pseudoElement, absent parts
\* contributing nothing.
C3_CanonicalChainStringifies ==
    /\ (IsPartCall /\ Canonical(Append(CategorySeq(Prior), LastCategory)))
           => ~last.raised
    /\ (StringifiedSelector /\ \A k \in 1..Len(log[last.target]) : log[last.target][k].val # "")
           => /\ ~last.raised
              /\ Canonical(CategorySeq(log[last.target]))
              /\ last.out = Rendered(log[last.target])

\* element('a').id('b').class('a').pseudoElement('b').stringify()
C3_Witness ==
    /\ StringifiedSelector
    /\ log[last.target] = <<[cat |-> 1, val |-> "a"], [cat |-> 2, val |-> "b"],
                            [cat |-> 3, val |-> "a"], [cat |-> 6, val |-> "b"]>>
    /\ last.out = "a#b.a::b"

\* C4: class, attr and pseudoClass may be repeated in a row without raising,
\* and stringify() lists the values of each of them in call order, duplicates
\* and empty strings included.
C4_RepeatsKeepCallOrder ==
    /\ (IsPartCall /\ LastCategory \in Repeatable /\ Prior # <<>>
            /\ Prior[Len(Prior)].cat = LastCategory)
           => ~last.raised
    /\ (StringifiedSelector
            /\ \A k \in 1..Len(log[last.target]) :
                   log[last.target][k].cat \in Singletons => log[last.target][k].val # "")
           => last.out = Rendered(log[last.target])

\* class('b').class('a').class('b').stringify()
C4_Witness ==
    /\ StringifiedSelector
    /\ log[last.target] = <<[cat |-> 3, val |-> "b"], [cat |-> 3, val |-> "a"],
                            [cat |-> 3, val |-> "b"]>>
    /\ last.out = ".b.a.b"

\* C5: a part call that raises leaves the selector as it was: every field and
\* rank unchanged, the same stringify() result, the same calls accepted.
C5_FailedCallChangesNothing ==
    [][(last'.op \in PartOps /\ last'.raised)
          => /\ heap' = heap
             /\ log' = log
             /\ \A r \in Refs :
                    /\ Invoke_stringify(heap', r) = Invoke_stringify(heap, r)
                    /\ \A c \in 1..6 : checkRules(heap'[r], c) = checkRules(heap[r], c)]_vars

\* a call raised on a selector that already holds two parts
C5_Witness ==
    /\ IsPartCall /\ last.raised
    /\ Len(log[last.target]) >= 2
    /\ heap[last.target].rank = log[last.target][Len(log[last.target])].cat

\* C7 as stated: the duplicate message whenever the singleton was already set
\* on the selector, the order message when only the order is violated.
C7_MessageByTrigger ==
    (IsPartCall /\ last.raised)
        => IF LastCategory \in Singletons /\ LastCategory \in CategoriesIn(Prior)
           THEN last.msg = DuplicateMsg
           ELSE last.msg = OrderMsg

\* C7 (amended): the duplicate message exactly when the call's category is the
\* category of the most recent part added (then a singleton), the order message
\* exactly when the most recent part added is of a strictly later category,
\* also when the call sets a singleton that was set earlier in the chain.
C7_MessageByLastCategory ==
    (IsPartCall /\ last.raised)
        => /\ Prior # <<>>
           /\ last.msg \in {DuplicateMsg, OrderMsg}
           /\ last.msg = DuplicateMsg
                  <=> (Prior[Len(Prior)].cat = LastCategory /\ LastCategory \in Singletons)
           /\ last.msg = OrderMsg <=> Prior[Len(Prior)].cat > LastCategory

\* element('a').id('b').element(..) raises with the order message
C7_Witness ==
    /\ IsPartCall /\ last.op = "element" /\ last.raised
    /\ CategorySeq(Prior) = <<1, 2>>
    /\ last.msg = OrderMsg

\* C6: combine(left, c, right).stringify() is left.stringify() + ' ' + c + ' '
\* + right.stringify() for simple and combined operands alike, the combinator
\* echoed as given (' ' gives three spaces in a row).
C6_CombinedStringify ==
    (last.op = "stringify" /\ last.target \in CombinatorRefs)
        => LET this == heap[last.target]
               left == Invoke_stringify(heap, this.selector1)
               right == Invoke_stringify(heap, this.selector2)
           IN /\ ~last.raised /\ ~left.raised /\ ~right.raised
              /\ this.combinator \in Combinators
              /\ last.out = left.val \o " " \o this.combinator \o " " \o right.val

\* combine(combine(s, ' ', s), ' ', s).stringify() with s = element('a')
C6_Witness ==
    /\ last.op = "stringify" /\ last.target \in CombinatorRefs
    /\ heap[last.target].selector1 \in CombinatorRefs
    /\ heap[last.target].selector2 \in SelectorRefs
    /\ last.out = "a   a   a"

\* C8: stringify() reads only: no field of any object changes, a repeated
\* call on the same object returns the same string, and the part calls
\* accepted afterwards are those accepted before.
C8_StringifyIsPureRead ==
    [][last'.op = "stringify"
          => /\ heap' = heap
             /\ \A r \in SelectorRefs : \A c \in 1..6 :
                    checkRules(heap'[r], c) = checkRules(heap[r], c)
             /\ (last.op = "stringify" /\ last.target = last'.target)
                    => (last'.out = last.out /\ last'.raised = last.raised)]_vars

\* element('a').id('a') has been read as 'a#a' and class is still accepted
C8_Witness ==
    /\ StringifiedSelector
    /\ last.out = "a#a"
    /\ heap[last.target].rank = 2
    /\ checkRules(heap[last.target], 3) = NoError

\* the selector a facade entry point returns for one part call
OnePart(e) ==
    [type |-> "CssSelector",
     elementItem |-> IF e.cat = 1 THEN JsString(e.val) ELSE JsNull,
     idItem |-> IF e.cat = 2 THEN JsString(e.val) ELSE JsNull,
     classItems |-> IF e.cat = 3 THEN <<e.val>> ELSE <<>>,
     attrItems |-> IF e.cat = 4 THEN <<e.val>> ELSE <<>>,
     pseudoClassItems |-> IF e.cat = 5 THEN <<e.val>> ELSE <<>>,
     pseudoElementItem |-> IF e.cat = 6 THEN JsString(e.val) ELSE JsNull,
     multipleDataItem |-> <<3, 4, 5>>,
     rank |-> e.cat]

\* C9: every facade entry point returns a fresh selector holding exactly the
\* one part, whatever was built before, and a part call on one selector
\* (returning or raising) leaves every other selector as it was.
C9_FacadeKeepsNoState ==
    [][last'.op \in PartOps
          => /\ last'.target \in 1..Len(heap')
             /\ \A r \in Refs \ {last'.target} :
                    /\ heap'[r] = heap[r]
                    /\ Invoke_stringify(heap', r) = Invoke_stringify(heap, r)
             /\ Len(heap') # Len(heap)
                    => /\ Len(heap') = Len(heap) + 1
                       /\ last'.target = Len(heap')
                       /\ ~last'.raised
                       /\ Len(log'[Len(heap')]) = 1
                       /\ last'.op \in PartOps
                       /\ CategoryOf(last'.op) = log'[Len(heap')][1].cat
                       /\ heap'[Len(heap')] = OnePart(log'[Len(heap')][1])]_vars

\* a chained call returned on the first selector while the second, created
\* before that call, still holds exactly its one part
C9_Witness ==
    /\ Len(heap) = 2
    /\ IsPartCall /\ ~last.raised /\ last.target = 1
    /\ Len(log[1]) >= 2
    /\ heap[2] = OnePart(log[2][1])

\* C10: combine and stringify return normally on every selector and every
\* combined selector that can be built; only the part operations raise.
C10_OnlyPartCallsRaise ==
    /\ last.raised => last.op \in PartOps
    /\ \A r \in Refs : ~Invoke_stringify(heap, r).raised

\* a combined selector nesting another on its right has been stringified
C10_Witness ==
    /\ last.op = "stringify" /\ last.target \in CombinatorRefs
    /\ heap[last.target].selector2 \in CombinatorRefs
    /\ ~last.raised
    /\ heap[heap[heap[last.target].selector2].selector1].idItem = JsNull

\* C11: new Rectangle(width, height) exposes width and height as given, and
\* getArea() returns width * height and leaves the rectangle as it was.
C11_RectangleArea ==
    /\ \A r \in RectangleRefs :
           /\ heap[r].width = log[r][1].width
           /\ heap[r].height = log[r][1].height
    /\ (last.op = "getArea" /\ last.target \in RectangleRefs)
           => /\ ~last.raised
              /\ last.out = log[last.target][1].width * log[last.target][1].height

\* new Rectangle(10, 20).getArea() is 200
C11_Witness ==
    /\ last.op = "getArea" /\ last.target \in RectangleRefs
    /\ heap[last.target].width = 10 /\ heap[last.target].height = 20
    /\ last.out = 200

\* C12: rank is 0 on a selector without parts and otherwise the category of
\* the most recent part call that returned; it never decreases, and a part
\* call leaves it equal only by raising or by repeating class, attr or
\* pseudoClass at the current rank.
C12_RankIsLastCategory ==
    [][/\ CssSelector.rank = 0
       /\ \A r \in 1..Len(heap') :
              heap'[r].type = "CssSelector"
                  => /\ log'[r] # <<>>
                     /\ heap'[r].rank = log'[r][Len(log'[r])].cat
       /\ \A r \in SelectorRefs :
              /\ heap'[r].rank >= heap[r].rank
              /\ (last'.op \in PartOps /\ last'.target = r /\ heap'[r].rank = heap[r].rank)
                     => \/ last'.raised
                        \/ /\ CategoryOf(last'.op) \in Repeatable
                           /\ CategoryOf(last'.op) = heap[r].rank]_vars

\* class returned for the second time in a row and the rank is still 3
C12_Witness ==
    /\ IsPartCall /\ last.op = "class" /\ ~last.raised
    /\ Prior # <<>> /\ Prior[Len(Prior)].cat = 3
    /\ heap[last.target].rank = 3

\* the selectors a selector-like object is built from
RECURSIVE Leaves(_)
Leaves(r) ==
    IF heap[r].type = "CssSelector" THEN {r}
    ELSE Leaves(heap[r].selector1) \cup Leaves(heap[r].selector2)

\* the text of an object from the part calls l records for its selectors
RECURSIVE TextOf(_, _)
TextOf(l, r) ==
    IF heap[r].type = "CssSelector" THEN Rendered(l[r])
    ELSE TextOf(l, heap[r].selector1) \o " " \o heap[r].combinator \o " "
         \o TextOf(l, heap[r].selector2)

\* C13: a combined selector holds its operands by reference: a chained part
\* call returns the receiver itself, and once it has added a part to an operand
\* every combined selector over that operand, nested ones included,
\* stringifies with the operand's new state, on both sides when the selector
\* is both operands.
C13_OperandsByReference ==
    [][/\ (last'.op \in PartOps /\ ~last'.raised /\ Len(log'[last'.target]) >= 2)
              => /\ last'.target \in SelectorRefs
                 /\ Len(heap') = Len(heap)
                 /\ \A c \in CombinatorRefs :
                        /\ heap'[c] = heap[c]
                        /\ Invoke_stringify(heap', c).val = TextOf(log', c)
                        /\ last'.target \in Leaves(c)
                               => Invoke_stringify(heap', c) # Invoke_stringify(heap, c)
                        /\ (heap[c].selector1 = last'.target /\ heap[c].selector2 = last'.target)
                               => Invoke_stringify(heap', c).val
                                      = stringify(heap'[last'.target]).val \o " "
                                        \o heap[c].combinator \o " "
                                        \o stringify(heap'[last'.target]).val
       /\ (last'.op = "stringify" /\ last'.target \in CombinatorRefs)
              => last'.out = TextOf(log', last'.target)]_vars

\* id('a') returned on element('a') after it was combined with itself and
\* that combination combined with it again
C13_Witness ==
    /\ Len(heap) = 3
    /\ heap[2] = CssSelectorCombinator(1, " ", 1)
    /\ heap[3] = CssSelectorCombinator(2, " ", 1)
    /\ IsPartCall /\ ~last.raised /\ last.target = 1 /\ last.op = "id"
    /\ CategorySeq(log[1]) = <<1, 2>>
    /\ Invoke_stringify(heap, 3).val = "a#a   a#a   a#a"

\* C14: every part that was set contributes its prefix and its value to
\* stringify(), also when the value is '': id('') gives '#', pseudoElement('')
\* gives '::', as class('') gives '.', attr('') '[]' and pseudoClass('') ':';
\* only singletons never set contribute nothing.
C14_EmptyValuesKeepPrefix ==
    StringifiedSelector
        => /\ ~last.raised
           /\ last.out = Rendered(log[last.target])

IsPrefix(a, b) == Len(a) <= Len(b) /\ SubSeq(b, 1, Len(a)) = a

\* C15: a singleton field (element, id, pseudo-element) that holds a value is
\* never changed or cleared by a later call, returning or raising, and the
\* class, attribute and pseudo-class lists only grow at their end.
C15_WriteOnceAndAppendOnly ==
    [][\A r \in SelectorRefs :
           /\ heap'[r].type = "CssSelector"
           /\ heap[r].elementItem # JsNull => heap'[r].elementItem = heap[r].elementItem
           /\ heap[r].idItem # JsNull => heap'[r].idItem = heap[r].idItem
           /\ heap[r].pseudoElementItem # JsNull
                  => heap'[r].pseudoElementItem = heap[r].pseudoElementItem
           /\ IsPrefix(heap[r].classItems, heap'[r].classItems)
           /\ IsPrefix(heap[r].attrItems, heap'[r].attrItems)
           /\ IsPrefix(heap[r].pseudoClassItems, heap'[r].pseudoClassItems)]_vars

\* element('b').class('a').class('a') still holds 'b' after element raised
C15_Witness ==
    /\ IsPartCall /\ last.op = "element" /\ last.raised
    /\ heap[last.target].elementItem = JsString("b")
    /\ heap[last.target].classItems = <<"a", "a">>

\* the rank the target had when the last call was made
PriorRank == IF Prior = <<>> THEN 0 ELSE Prior[Len(Prior)].cat

\* C16: multipleDataItem of every selector is exactly 3, 4, 5 at every moment,
\* so it never holds 1, 2 or 6, and a call whose category equals the current
\* rank returns normally exactly when the category is class, attr or
\* pseudoClass.
C16_RepeatableSetIsFixed ==
    /\ \A r \in SelectorRefs :
           /\ heap[r].multipleDataItem = <<3, 4, 5>>
           /\ \A c \in Singletons : indexOf(heap[r].multipleDataItem, c) = -1
    /\ (IsPartCall /\ PriorRank = LastCategory)
           => (~last.raised <=> LastCategory \in Repeatable)

\* attr called at rank 4 returned and left two attributes
C16_Witness ==
    /\ IsPartCall /\ last.op = "attr" /\ ~last.raised
    /\ PriorRank = 4
    /\ Len(heap[last.target].attrItems) = 2
    /\ heap[last.target].multipleDataItem = <<3, 4, 5>>

\* the piece a part call contributes to the selector text
Piece(e) ==
    CASE e.cat = 1 -> e.val
      [] e.cat = 2 -> "#" \o e.val
      [] e.cat = 3 -> "." \o e.val
      [] e.cat = 4 -> "[" \o e.val \o "]"
      [] e.cat = 5 -> ":" \o e.val
      [] e.cat = 6 -> "::" \o e.val

\* the pieces of a list of part calls, concatenated in call order
RECURSIVE InCallOrder(_)
InCallOrder(l) == IF l = <<>> THEN "" ELSE Piece(Head(l)) \o InCallOrder(Tail(l))

NonEmptyValues(l) == \A k \in 1..Len(l) : l[k].val # ""

\* C17: when every value passed was non-empty, stringify() of a selector is
\* the concatenation, in call order, of the pieces of exactly the part calls
\* that returned normally on it; calls that raised contribute nothing,
\* wherever they fell in the sequence.
C17_StringifyIsSuccessfulCallsInOrder ==
    /\ \A r \in SelectorRefs :
           NonEmptyValues(log[r])
               => stringify(heap[r]) = [raised |-> FALSE, val |-> InCallOrder(log[r])]
    /\ (StringifiedSelector /\ NonEmptyValues(log[last.target]))
           => (~last.raised /\ last.out = InCallOrder(log[last.target]))

\* id('a').class('b').pseudoClass('a') followed by an id call that raised:
\* the selector text is that of the three calls that returned
C17_Witness ==
    /\ IsPartCall /\ last.op = "id" /\ last.raised
    /\ log[last.target] = <<[cat |-> 2, val |-> "a"], [cat |-> 3, val |-> "b"],
                            [cat |-> 5, val |-> "a"]>>
    /\ stringify(heap[last.target]).val = "#a.b:a"

\* the field of category k of a selector holds something
Populated(this, k) ==
    CASE k = 1 -> this.elementItem # JsNull
      [] k = 2 -> this.idItem # JsNull
      [] k = 3 -> this.classItems # <<>>
      [] k = 4 -> this.attrItems # <<>>
      [] k = 5 -> this.pseudoClassItems # <<>>
      [] k = 6 -> this.pseudoElementItem # JsNull

\* C18: on every selector rank is one of 0..6, a field is populated only if
\* its category is at most rank (so a set pseudo-element means rank = 6), and
\* when rank is above 0 the field of category rank is populated.
C18_FieldsAtOrBelowRank ==
    \A r \in SelectorRefs :
        /\ heap[r].rank \in 0..6
        /\ \A k \in 1..6 : Populated(heap[r], k) => k <= heap[r].rank
        /\ Populated(heap[r], 6) => heap[r].rank = 6
        /\ heap[r].rank > 0 => Populated(heap[r], heap[r].rank)

\* element('a').pseudoClass('b'): rank 5 with classes and attributes empty
C18_Witness ==
    \E r \in SelectorRefs :
        /\ heap[r].rank = 5
        /\ Populated(heap[r], 1) /\ Populated(heap[r], 5)
        /\ ~Populated(heap[r], 2) /\ ~Populated(heap[r], 3) /\ ~Populated(heap[r], 4)

====
